---- MODULE Spec2Model ----
(***************************************************************************)
(* kntrl: the control plane of the egress tracer.                          *)
(*                                                                         *)
(* Two entry points are modelled, as they are in the source:               *)
(*   variant = "kntrl"  : func Run(mode uint32, hosts []net.IP) error      *)
(*   variant = "tracer" : func Run(cmd cobra.Command) error                *)
(* together with the seed parser (pkg/parser/flag.go).                     *)
(*                                                                         *)
(* Representation notes.                                                   *)
(*  - a byte slice (net.IP, a raw sample) is a sequence of bytes; a nil    *)
(*    slice is the empty sequence.                                         *)
(*  - a uint32 is the 4-tuple of its bytes, least significant first (the   *)
(*    values exceed the integer range of the model checker).  It is what   *)
(*    the kernel map holds in memory as the key on the little-endian       *)
(*    targets the program is built for.                                    *)
(*  - a comma separated flag is the sequence of its pieces, what           *)
(*    strings.Split(s, ",") returns: the empty string is <<"">>.           *)
(***************************************************************************)
EXTENDS Integers, Sequences, FiniteSets, TLC

\* ------------------------------------------------------------------ bounds
MaxEvents == 2        \* reads the opened-events reader answers with a record or an error
NumProgs == 2         \* programs declared by the artifact

\* ------------------------------------------------------- pkg/parser/flag.go
localLoopback == "127.0.0.1"
linkLocal == "169.254.169.254"
azureMeta == "168.63.129.16"

Nil == << >>

\* The 16-byte form net.ParseIP returns for a dotted IPv4 literal.
V4in16(a, b, c, d) == <<0, 0, 0, 0, 0, 0, 0, 0, 0, 0, 255, 255, a, b, c, d>>

\* net.ParseIP on the literals of the model's vocabulary; nil for anything else.
ParseIP(s) ==
    CASE s = "10.0.0.1" -> V4in16(10, 0, 0, 1)
      [] s = "8.8.8.8" -> V4in16(8, 8, 8, 8)
      [] s = "127.0.0.1" -> V4in16(127, 0, 0, 1)
      [] s = "169.254.169.254" -> V4in16(169, 254, 169, 254)
      [] s = "168.63.129.16" -> V4in16(168, 63, 129, 16)
      [] s = "::1" -> <<0, 0, 0, 0, 0, 0, 0, 0, 0, 0, 0, 0, 0, 0, 0, 1>>
      [] OTHER -> Nil

\* net.IP.To4: a 4-byte slice is returned as is, an IPv4-mapped 16-byte slice
\* gives its last four bytes, anything else nil.
To4(ip) ==
    IF Len(ip) = 4 THEN ip
    ELSE IF /\ Len(ip) = 16
            /\ \A i \in 1..10 : ip[i] = 0
            /\ ip[11] = 255
            /\ ip[12] = 255
         THEN SubSeq(ip, 13, 16)
         ELSE Nil

\* strings.TrimSpace on the vocabulary.
TrimSpace(s) == IF s = " x" THEN "x" ELSE s

\* The loop of parseAllowedIPAddr over the pieces of the flag.
RECURSIVE parseLoop(_)
parseLoop(pieces) ==
    IF pieces = << >> THEN << >>
    ELSE IF ParseIP(Head(pieces)) = Nil
         THEN parseLoop(Tail(pieces))
         ELSE <<To4(ParseIP(Head(pieces)))>> \o parseLoop(Tail(pieces))

parseAllowedIPAddr(ips) ==
    parseLoop(ips) \o <<To4(ParseIP(localLoopback)),
                        To4(ParseIP(linkLocal)),
                        To4(ParseIP(azureMeta))>>

parseAllowedHosts(hosts) == [i \in 1..Len(hosts) |-> TrimSpace(hosts[i])]

\* The scan loop of getDNSServers: a line is the sequence of its fields.
RECURSIVE scanLines(_)
scanLines(lines) ==
    IF lines = << >> THEN [hosts |-> << >>, ips |-> << >>]
    ELSE LET fields == Head(lines)
             rest == scanLines(Tail(lines))
         IN  IF Len(fields) >= 2 /\ fields[1] = "nameserver"
             THEN IF ParseIP(fields[2]) = Nil
                  THEN [hosts |-> <<fields[2]>> \o rest.hosts, ips |-> rest.ips]
                  ELSE [hosts |-> rest.hosts, ips |-> <<ParseIP(fields[2])>> \o rest.ips]
             ELSE rest

\* resolvconf: [readable, lines]; an unreadable file gives (nil, nil).
getDNSServers(resolvconf) ==
    IF ~resolvconf.readable THEN [hosts |-> << >>, ips |-> << >>]
    ELSE scanLines(resolvconf.lines)

ToDataJson(allowed_hosts, allowed_ips, ghrange, localrange, resolvconf) ==
    LET dns == getDNSServers(resolvconf)
    IN  [AllowedHosts |-> dns.hosts \o parseAllowedHosts(allowed_hosts),
         AllowedIPs |-> dns.ips \o parseAllowedIPAddr(allowed_ips),
         AllowGithubMeta |-> ghrange,
         AllowLocalIPRanges |-> localrange]

\* ------------------------------------------------------------ input domains
\* The flags tried: empty, not an address, addresses in both orders, a
\* duplicate, an IPv6 literal; their texts have the lengths 0, 1, 2 and more.
FlagStrings ==
    {<<"">>, <<"x">>, <<"x", "">>, <<"10.0.0.1">>, <<"10.0.0.1", "10.0.0.1">>,
     <<"10.0.0.1", "127.0.0.1">>, <<"127.0.0.1", "10.0.0.1">>, <<"::1">>}

\* The resolv.conf files tried: unreadable, empty, and lines with an address, a
\* host name, another keyword and a missing field.
ResolvConfs ==
    {[readable |-> FALSE, lines |-> << >>],
     [readable |-> TRUE, lines |-> << >>],
     [readable |-> TRUE, lines |-> << <<"nameserver", "8.8.8.8">> >>],
     [readable |-> TRUE, lines |-> << <<"nameserver", "dns.local">>, <<"search", "local">> >>],
     [readable |-> TRUE, lines |-> << <<"nameserver">>, <<"nameserver", "8.8.8.8">> >>]}

\* The text of a flag: its pieces joined by commas.
RECURSIVE Join(_)
Join(pieces) ==
    IF Len(pieces) = 1 THEN pieces[1]
    ELSE pieces[1] \o "," \o Join(Tail(pieces))


\* ------------------------------------------------------------------- state
VARIABLES
    variant,      \* which entry point runs: "kntrl" or "tracer"
    mode,         \* kntrl: the mode code passed to Run; tracer: the text of the mode flag
    allowedHosts, \* tracer: the pieces of the hosts flag (cmd.Flag("hosts").Value.String())
    hosts,        \* hosts / allowedIPS: the seed addresses (dropped once the seeding loop is over)
    seedIdx,      \* seed addresses the seeding loop has written
    pc,           \* position of the main goroutine in Run
    outcome,      \* "running", "returned", "fatal" (os.Exit by Fatalf) or "panic"
    retErr,       \* the error Run returned ("nil" for none)
    memlock,      \* rlimit.RemoveMemlock has succeeded
    loadCalls,    \* calls of load / Load
    collection,   \* e.Collection / ebpfClient.Collection: "nil", "open" or "closed"
    cleanCalls,   \* calls of e.clean / ebpfClient.Clean
    links,        \* per program: "unvisited", "skipped", "open" or "closed"
    cgroup,       \* per program, the root cgroup file: "none", "open" or "closed"
    defers,       \* the deferred calls of Run, in the order they were deferred
    modeMap,      \* the values written to mode_map at key 0, in order
    allowMap,     \* allow_map: a function from the keys present to their values
    rd,           \* the opened-events reader: "none", "open" or "closed"
    rd2,          \* the closed-events reader
    sigs,         \* messages in the sigs channel (capacity 1)
    done,         \* messages in the done channel (capacity 1)
    hpc,          \* position of the signal handler goroutine
    record,       \* RawSample of the record of this iteration (empty between iterations)
    event,        \* var event IP4Event, kept across iterations
    domain,       \* the names of this iteration's lookup (empty between iterations)
    nReads,       \* reads answered with a record or an error
    connLines,    \* connection log lines emitted (the Infof at the end of the loop body)
    report,       \* entries in the report accumulator
    printCalls,   \* calls of r.Print
    rCleanCalls   \* calls of r.Clean

vars == <<variant, mode, allowedHosts, hosts, seedIdx, pc, outcome, retErr, memlock, loadCalls,
          collection, cleanCalls, links, cgroup, defers, modeMap, allowMap, rd, rd2,
          sigs, done, hpc, record, event, domain, nReads, connLines,
          report, printCalls, rCleanCalls>>

\* The variables no defer touches and the handler's.
handlerVars == <<sigs, done, hpc>>
loopVars == <<record, event, domain, nReads, connLines, report>>
seedVars == <<hosts, seedIdx>>
inputVars == <<variant, mode, allowedHosts>>

Progs == 1..NumProgs
Kinds == {"Kprobe", "Tracing", "TracePoint", "CGroupSKB", "Other"}

\* domain.TracerModeMonitor / TracerModeTrace and their map codes.
TracerModeMonitor == "monitor"
TracerModeTrace == "trace"
TracerModeIndexMonitor == "IndexMonitor"
TracerModeIndexTrace == "IndexTrace"
ModeStrings == {"", TracerModeMonitor, TracerModeTrace, "enforce"}
ModeCodes == {TracerModeIndexMonitor, TracerModeIndexTrace}

\* The order of the setup steps of each entry point.
After(step) ==
    IF variant = "kntrl"
    THEN CASE step = "entry" -> "root"
           [] step = "root" -> "memlock"
           [] step = "memlock" -> "load"
           [] step = "load" -> "attach"
           [] step = "attach" -> "mode"
           [] step = "mode" -> "seed"
           [] step = "seed" -> "openrd"
           [] step = "openrd" -> "openrd2"
           [] step = "openrd2" -> "arm"
    ELSE CASE step = "entry" -> "parse"
           [] step = "parse" -> "root"
           [] step = "root" -> "load"
           [] step = "load" -> "mode"
           [] step = "mode" -> "seed"
           [] step = "seed" -> "openrd"
           [] step = "openrd" -> "openrd2"
           [] step = "openrd2" -> "reporter"
           [] step = "reporter" -> "memlock"
           [] step = "memlock" -> "attach"
           [] step = "attach" -> "arm"

\* ------------------------------------------------ resources and the defers
\* The resources a deferred call releases, as one record.
Res == [collection |-> collection, cleanCalls |-> cleanCalls, links |-> links,
        cgroup |-> cgroup, rd |-> rd, rd2 |-> rd2, panicked |-> FALSE]

\* func (e *ebpfProgram) clean(): e.Collection.Close(); with a nil Collection
\* the call dereferences nil and panics.
clean(r) ==
    IF r.collection = "nil"
    THEN [r EXCEPT !.cleanCalls = @ + 1, !.panicked = TRUE]
    ELSE [r EXCEPT !.cleanCalls = @ + 1, !.collection = "closed"]

\* Faulty variant of ApplyDefer (a property that depends on ApplyDefer must fail with it): the deferred l.Close() of a link is missing.
ApplyDefer_NoLinkClose(d, r) ==
    CASE d[1] = "clean" -> clean(r)
      [] d[1] = "link" -> r
      [] d[1] = "cgroup" -> [r EXCEPT !.cgroup[d[2]] = "closed"]
      [] d[1] = "rd" -> [r EXCEPT !.rd = "closed"]
      [] d[1] = "rd2" -> [r EXCEPT !.rd2 = "closed"]

\* One deferred call (kntrl lines 39, 74, 84, 92, 108, 109, 138, 145).
ApplyDefer(d, r) ==
    CASE d[1] = "clean" -> clean(r)
      [] d[1] = "link" -> [r EXCEPT !.links[d[2]] = "closed"]
      [] d[1] = "cgroup" -> [r EXCEPT !.cgroup[d[2]] = "closed"]
      [] d[1] = "rd" -> [r EXCEPT !.rd = "closed"]
      [] d[1] = "rd2" -> [r EXCEPT !.rd2 = "closed"]

\* The deferred calls run last-in first-out; a panic in one does not stop the rest.
RECURSIVE RunDefers(_, _)
RunDefers(stack, r) ==
    IF stack = << >> THEN r
    ELSE RunDefers(SubSeq(stack, 1, Len(stack) - 1), ApplyDefer(stack[Len(stack)], r))

SetRes(r) ==
    /\ collection' = r.collection
    /\ cleanCalls' = r.cleanCalls
    /\ links' = r.links
    /\ cgroup' = r.cgroup
    /\ rd' = r.rd
    /\ rd2' = r.rd2

\* return err (or return nil): the deferred calls run, then Run is over.
Return(err, r) ==
    LET s == RunDefers(defers, r)
    IN  /\ SetRes(s)
        /\ defers' = << >>
        /\ pc' = "done"
        /\ outcome' = IF s.panicked THEN "panic" ELSE "returned"
        /\ retErr' = IF s.panicked THEN "none" ELSE err

\* logger.Log.Fatalf: the message is logged and os.Exit(1) ends the process;
\* no deferred call runs.
Fatalf(r) ==
    /\ SetRes(r)
    /\ defers' = defers
    /\ pc' = "done"
    /\ outcome' = "fatal"
    /\ retErr' = "none"

\* A run-time panic in the body of Run: the deferred calls run, the process dies.
Panic(r) ==
    LET s == RunDefers(defers, r)
    IN  /\ SetRes(s)
        /\ defers' = << >>
        /\ pc' = "done"
        /\ outcome' = "panic"
        /\ retErr' = "none"

\* The step succeeded: go on to the next one.
Goto(next, r, ds) ==
    /\ SetRes(r)
    /\ defers' = ds
    /\ pc' = next
    /\ UNCHANGED <<outcome, retErr>>

\* -------------------------------------------------------------------- Init
Init ==
    /\ variant \in {"kntrl", "tracer"}
    /\ IF variant = "kntrl"
       THEN /\ mode \in ModeCodes
            /\ allowedHosts = <<"">>
            /\ hosts \in {ToDataJson(<<"">>, f, FALSE, FALSE, rc).AllowedIPs :
                            f \in FlagStrings, rc \in ResolvConfs}
       ELSE /\ mode \in ModeStrings
            /\ allowedHosts \in FlagStrings
            /\ hosts = << >>
    /\ seedIdx = 0
    /\ pc = "entry"
    /\ outcome = "running"
    /\ retErr = "none"
    /\ memlock = FALSE
    /\ loadCalls = 0
    /\ collection = "nil"
    /\ cleanCalls = 0
    /\ links = [p \in Progs |-> "unvisited"]
    /\ cgroup = [p \in Progs |-> "none"]
    /\ defers = << >>
    /\ modeMap = << >>
    /\ allowMap = << >>
    /\ rd = "none"
    /\ rd2 = "none"
    /\ sigs = 0
    /\ done = 0
    /\ hpc = "none"
    /\ record = << >>
    /\ event = [TsUs |-> <<0, 0, 0, 0, 0, 0, 0, 0>>, Pid |-> <<0, 0, 0, 0>>,
                Af |-> <<0, 0>>,
                Task |-> <<0, 0, 0, 0, 0, 0, 0, 0, 0, 0, 0, 0, 0, 0, 0, 0>>,
                Daddr |-> <<0, 0, 0, 0>>, Dport |-> <<0, 0>>]
    /\ domain = << >>
    /\ nReads = 0
    /\ connLines = 0
    /\ report = 0
    /\ printCalls = 0
    /\ rCleanCalls = 0

\* ------------------------------------------------------------- setup steps
\* Faulty variant of ModeInvalid (a property that depends on ModeInvalid must fail with it): the membership test is left out.
ModeInvalid_Unchecked(m) == FALSE

\* tracer line 299: the mode is neither of the two recognized ones.
ModeInvalid(m) == m # TracerModeMonitor /\ m # TracerModeTrace

\* kntrl lines 38-41: defer e.clean(), NewReporter().
\* tracer lines 294-301: the mode flag is validated.
Entry ==
    /\ pc = "entry"
    /\ IF variant = "kntrl"
       THEN Goto(After("entry"), Res, <<<<"clean">>>>)
       ELSE IF mode = ""
            THEN Return("[mode] flag is required", Res)
            ELSE IF ModeInvalid(mode)
                 THEN Return("[mode] flag is invalid", Res)
                 ELSE Goto(After("entry"), Res, defers)
    /\ UNCHANGED <<inputVars, seedVars, memlock, loadCalls, modeMap, allowMap,
                   handlerVars, loopVars, printCalls, rCleanCalls>>

\* utils.ParseHosts (tracer line 308): the literal addresses of the hosts flag
\* and the three fixed addresses (or an error, see Parse).
ParseHosts(flag) == parseAllowedIPAddr(flag)

\* tracer lines 303-311.
Parse ==
    /\ pc = "parse"
    /\ \E ok \in BOOLEAN :
         IF ok
         THEN /\ hosts' = ParseHosts(allowedHosts)
              /\ Goto(After("parse"), Res, defers)
         ELSE /\ hosts' = hosts
              /\ Return("failed to parse allowed hosts", Res)
    /\ UNCHANGED <<inputVars, seedIdx, memlock, loadCalls, modeMap, allowMap,
                   handlerVars, loopVars, printCalls, rCleanCalls>>

\* kntrl lines 43-45, tracer lines 313-315: utils.IsRoot().
IsRoot ==
    /\ pc = "root"
    /\ \E root \in BOOLEAN :
         IF root
         THEN Goto(After("root"), Res, defers)
         ELSE Return("you need root privileges to run this program", Res)
    /\ UNCHANGED <<inputVars, seedVars, memlock, loadCalls, modeMap, allowMap,
                   handlerVars, loopVars, printCalls, rCleanCalls>>

\* kntrl lines 47-50, tracer lines 375-378: rlimit.RemoveMemlock().
RemoveMemlock ==
    /\ pc = "memlock"
    /\ \E ok \in BOOLEAN :
         IF ok
         THEN /\ memlock' = TRUE
              /\ Goto(After("memlock"), Res, defers)
         ELSE /\ memlock' = memlock
              /\ Return("failed to set temporary rlimit", Res)
    /\ UNCHANGED <<inputVars, seedVars, loadCalls, modeMap, allowMap,
                   handlerVars, loopVars, printCalls, rCleanCalls>>

\* func (e *ebpfProgram) load(): LoadCollectionSpec, then NewCollection; either
\* failure ends in Fatalf.  what: "spec" (LoadCollectionSpec fails),
\* "collection" (NewCollection fails) or "ok".
load(what, r) == IF what = "ok" THEN [r EXCEPT !.collection = "open"] ELSE r

\* kntrl lines 52-55: e.load(); tracer lines 317-322: ebpfClient.Load(prog),
\* Fatalf on its error, then defer ebpfClient.Clean().
Load ==
    /\ pc = "load"
    /\ loadCalls' = loadCalls + 1
    /\ \E what \in {"spec", "collection", "ok"} :
         IF what = "ok"
         THEN Goto(After("load"), load(what, Res),
                   IF variant = "tracer" THEN Append(defers, <<"clean">>) ELSE defers)
         ELSE Fatalf(load(what, Res))
    /\ UNCHANGED <<inputVars, seedVars, memlock, modeMap, allowMap,
                   handlerVars, loopVars, printCalls, rCleanCalls>>

\* Faulty variant of AttachOne (a property that depends on AttachOne must fail with it): an unknown kind leaves the range loop instead of going on.
AttachOne_BreakOnUnknown(p, kind, opened, attached) ==
    CASE kind \in {"Kprobe", "Tracing", "TracePoint"} ->
           IF attached
           THEN Goto("attach", [Res EXCEPT !.links[p] = "open"],
                     Append(defers, <<"link", p>>))
           ELSE Return("attach failed", Res)
      [] kind = "CGroupSKB" ->
           IF ~opened
           THEN Return("open /sys/fs/cgroup failed", Res)
           ELSE IF attached
                THEN Goto("attach",
                          [Res EXCEPT !.links[p] = "open", !.cgroup[p] = "open"],
                          defers \o << <<"link", p>>, <<"cgroup", p>> >>)
                ELSE Return("attach failed", [Res EXCEPT !.cgroup[p] = "open"])
      [] OTHER ->
           Goto(After("attach"), [Res EXCEPT !.links[p] = "skipped"], defers)

\* One iteration of "for name, spec := range Spec.Programs" (kntrl lines 58-114,
\* tracer lines 381-437) on program p of kind kind.  opened: os.Open(rootCgroup)
\* succeeds; attached: the link call succeeds.
AttachOne(p, kind, opened, attached) ==
    CASE kind \in {"Kprobe", "Tracing", "TracePoint"} ->
           IF attached
           THEN Goto("attach", [Res EXCEPT !.links[p] = "open"],
                     Append(defers, <<"link", p>>))
           ELSE Return("attach failed", Res)
      [] kind = "CGroupSKB" ->
           IF ~opened
           THEN Return("open /sys/fs/cgroup failed", Res)
           ELSE IF attached
                THEN Goto("attach",
                          [Res EXCEPT !.links[p] = "open", !.cgroup[p] = "open"],
                          defers \o << <<"link", p>>, <<"cgroup", p>> >>)
                ELSE Return("attach failed", [Res EXCEPT !.cgroup[p] = "open"])
      [] OTHER ->
           Goto("attach", [Res EXCEPT !.links[p] = "skipped"], defers)

Attach ==
    /\ pc = "attach"
    /\ \E p \in Progs, kind \in Kinds, opened \in BOOLEAN, attached \in BOOLEAN :
         /\ links[p] = "unvisited"
         /\ AttachOne(p, kind, opened, attached)
    /\ UNCHANGED <<inputVars, seedVars, memlock, loadCalls, modeMap, allowMap,
                   handlerVars, loopVars, printCalls, rCleanCalls>>

\* The range loop is over: every program was visited.
AttachDone ==
    /\ pc = "attach"
    /\ \A p \in Progs : links[p] # "unvisited"
    /\ Goto(After("attach"), Res, defers)
    /\ UNCHANGED <<inputVars, seedVars, memlock, loadCalls, modeMap, allowMap,
                   handlerVars, loopVars, printCalls, rCleanCalls>>

\* Faulty variant of ModeCode (a property that depends on ModeCode must fail with it): the two cases of the switch write each other's code.
ModeCode_Swapped ==
    IF variant = "kntrl" THEN mode
    ELSE IF mode = TracerModeTrace THEN TracerModeIndexMonitor ELSE TracerModeIndexTrace

\* The code written to mode_map: kntrl writes its argument, tracer the code of
\* the mode named by the flag (lines 324-341).
ModeCode ==
    IF variant = "kntrl" THEN mode
    ELSE IF mode = TracerModeTrace THEN TracerModeIndexTrace ELSE TracerModeIndexMonitor

\* kntrl lines 116-120, tracer lines 324-341: modeMap.Put(0, code), Fatalf on error.
SetMode ==
    /\ pc = "mode"
    /\ IF variant = "tracer" /\ mode \notin {TracerModeTrace, TracerModeMonitor}
       THEN /\ modeMap' = modeMap
            /\ Return("invalid mode", Res)
       ELSE \E ok \in BOOLEAN :
              IF ok
              THEN /\ modeMap' = Append(modeMap, ModeCode)
                   /\ Goto(After("mode"), Res, defers)
              ELSE /\ modeMap' = modeMap
                   /\ Fatalf(Res)
    /\ UNCHANGED <<inputVars, seedVars, memlock, loadCalls, allowMap,
                   handlerVars, loopVars, printCalls, rCleanCalls>>

\* binary.LittleEndian.Uint32(b): the first four bytes of b (it panics on a
\* shorter slice, see CanUint32).
Uint32(b) == <<b[1], b[2], b[3], b[4]>>
CanUint32(b) == Len(b) >= 4

\* Faulty variant of Put (a property that depends on Put must fail with it): the map is replaced by the new entry.
Put_Replacing(m, k, v) == [x \in {k} |-> v]

\* Map.Put on a hash map: the key is added, or its value replaced.
Put(m, k, v) == [x \in DOMAIN m \cup {k} |-> IF x = k THEN v ELSE m[x]]

\* kntrl lines 122-131, tracer lines 343-352: one iteration of the seeding loop,
\* or its end.
Seed ==
    /\ pc = "seed"
    /\ IF seedIdx = Len(hosts)
       THEN /\ hosts' = << >>
            /\ seedIdx' = 0
            /\ allowMap' = allowMap
            /\ Goto(After("seed"), Res, defers)
       ELSE IF ~CanUint32(hosts[seedIdx + 1])
            THEN /\ UNCHANGED <<hosts, seedIdx, allowMap>>
                 /\ Panic(Res)
            ELSE \E ok \in BOOLEAN :
                   IF ok
                   THEN /\ allowMap' = Put(allowMap, Uint32(hosts[seedIdx + 1]), 1)
                        /\ seedIdx' = seedIdx + 1
                        /\ hosts' = hosts
                        /\ Goto("seed", Res, defers)
                   ELSE /\ UNCHANGED <<hosts, seedIdx, allowMap>>
                        /\ Fatalf(Res)
    /\ UNCHANGED <<inputVars, memlock, loadCalls, modeMap,
                   handlerVars, loopVars, printCalls, rCleanCalls>>

\* kntrl lines 133-138, tracer lines 354-360: perf.NewReader on ipv4_events.
OpenReader ==
    /\ pc = "openrd"
    /\ \E ok \in BOOLEAN :
         IF ok
         THEN Goto(After("openrd"), [Res EXCEPT !.rd = "open"], Append(defers, <<"rd">>))
         ELSE Fatalf(Res)
    /\ UNCHANGED <<inputVars, seedVars, memlock, loadCalls, modeMap, allowMap,
                   handlerVars, loopVars, printCalls, rCleanCalls>>

\* kntrl lines 140-145, tracer lines 362-368: perf.NewReader on ipv4_closed_events.
OpenClosedReader ==
    /\ pc = "openrd2"
    /\ \E ok \in BOOLEAN :
         IF ok
         THEN Goto(After("openrd2"), [Res EXCEPT !.rd2 = "open"], Append(defers, <<"rd2">>))
         ELSE Fatalf(Res)
    /\ UNCHANGED <<inputVars, seedVars, memlock, loadCalls, modeMap, allowMap,
                   handlerVars, loopVars, printCalls, rCleanCalls>>

\* tracer lines 370-373: reporter.NewReporter(), Fatalf when r.Err is set.
NewReporter ==
    /\ pc = "reporter"
    /\ \E ok \in BOOLEAN :
         IF ok THEN Goto(After("reporter"), Res, defers) ELSE Fatalf(Res)
    /\ UNCHANGED <<inputVars, seedVars, memlock, loadCalls, modeMap, allowMap,
                   handlerVars, loopVars, printCalls, rCleanCalls>>

\* kntrl lines 147-159, tracer lines 439-451: the channels are made, the signals
\* registered and the handler goroutine started.
Arm ==
    /\ pc = "arm"
    /\ hpc' = "wait"
    /\ Goto("read", Res, defers)
    /\ UNCHANGED <<inputVars, seedVars, memlock, loadCalls, modeMap, allowMap,
                   sigs, done, loopVars, printCalls, rCleanCalls>>

Setup ==
    \/ Entry \/ Parse \/ IsRoot \/ RemoveMemlock \/ Load \/ Attach \/ AttachDone
    \/ SetMode \/ Seed \/ OpenReader \/ OpenClosedReader \/ NewReporter \/ Arm

\* ----------------------------------------------------------- signal handler
\* The operating system delivers a termination signal.  signal.Notify sends
\* without blocking: with the channel full the signal is dropped.  (Before
\* Notify is called the signal's default action ends the process; the model
\* starts delivering once the handler is armed.)  Any number of signals may be
\* delivered, at any time.
Signal ==
    /\ outcome = "running"
    /\ hpc # "none"
    /\ sigs' = IF sigs < 1 THEN sigs + 1 ELSE sigs
    /\ UNCHANGED <<inputVars, seedVars, pc, outcome, retErr, memlock, loadCalls, collection,
                   cleanCalls, links, cgroup, defers, modeMap, allowMap, rd, rd2,
                   done, hpc, loopVars, printCalls, rCleanCalls>>

\* kntrl line 153, tracer line 445: <-sigs
HandlerRecv ==
    /\ outcome = "running"
    /\ hpc = "wait"
    /\ sigs > 0
    /\ sigs' = sigs - 1
    /\ hpc' = "post"
    /\ UNCHANGED <<inputVars, seedVars, pc, outcome, retErr, memlock, loadCalls, collection,
                   cleanCalls, links, cgroup, defers, modeMap, allowMap, rd, rd2,
                   done, loopVars, printCalls, rCleanCalls>>

\* kntrl line 154, tracer line 446: done <- true
HandlerPost ==
    /\ outcome = "running"
    /\ hpc = "post"
    /\ done < 1
    /\ done' = done + 1
    /\ hpc' = "close"
    /\ UNCHANGED <<inputVars, seedVars, pc, outcome, retErr, memlock, loadCalls, collection,
                   cleanCalls, links, cgroup, defers, modeMap, allowMap, rd, rd2,
                   sigs, loopVars, printCalls, rCleanCalls>>

\* kntrl lines 156-158, tracer lines 448-450: rd.Close()
HandlerClose ==
    /\ outcome = "running"
    /\ hpc = "close"
    /\ rd' = "closed"
    /\ hpc' = "end"
    /\ UNCHANGED <<inputVars, seedVars, pc, outcome, retErr, memlock, loadCalls, collection,
                   cleanCalls, links, cgroup, defers, modeMap, allowMap, rd2,
                   sigs, done, loopVars, printCalls, rCleanCalls>>

Handler == HandlerRecv \/ HandlerPost \/ HandlerClose

\* --------------------------------------------------------------- event loop
\* binary.Size(IP4Event): TsUs, Pid, Af, Task, Daddr, Dport.
IP4EventSize == 8 + 4 + 2 + 16 + 4 + 2

Zeros(n) == [i \in 1..n |-> 0]

\* The bytes of a record of process 7 to daddr, port 443.
RawOf(daddr) == Zeros(8) \o <<7, 0, 0, 0>> \o <<2, 0>> \o Zeros(16) \o daddr \o <<187, 1>>

Daddrs == {<<140, 82, 112, 3>>, <<10, 0, 0, 1>>}

\* The raw samples the reader hands out: exact, one byte short, padded, empty.
RawSamples ==
    UNION {{RawOf(d), SubSeq(RawOf(d), 1, IP4EventSize - 1), RawOf(d) \o Zeros(4)} :
             d \in Daddrs}
    \cup {<< >>}

\* binary.Read(bytes.NewBuffer(raw), binary.LittleEndian, &event): io.ReadFull of
\* IP4EventSize bytes, then the fields in order.
CanDecode(raw) == Len(raw) >= IP4EventSize
Decode(raw) ==
    [TsUs |-> SubSeq(raw, 1, 8), Pid |-> SubSeq(raw, 9, 12), Af |-> SubSeq(raw, 13, 14),
     Task |-> SubSeq(raw, 15, 30), Daddr |-> SubSeq(raw, 31, 34),
     Dport |-> SubSeq(raw, 35, 36)]

\* utils.IntToIP: the four bytes of the address, in memory order.
IntToIP(n) == <<n[1], n[2], n[3], n[4]>>

\* net.LookupAddr: an error (no names), or the names found.
Lookups ==
    {[err |-> TRUE, names |-> << >>]} \cup
    {[err |-> FALSE, names |-> ns] :
       ns \in {<<"lb.github.com.">>, <<"app.kondukto.io.">>, <<"example.org.">>,
               <<"example.org.", "lb.github.com.">>}}

\* strings.Contains on the vocabulary.
Contains(s, sub) ==
    \/ s = "lb.github.com." /\ sub = ".github.com"
    \/ s = "app.kondukto.io." /\ sub = ".kondukto.io"

\* kntrl line 161 (allowedHosts), tracer line 453 (allowedHostsAddress).
allowedHostsAddress == <<".github.com", ".kondukto.io">>

\* The bound of the outer matching loop: kntrl line 184 takes the length of the
\* suffix list, tracer line 476 the length of the text of the hosts flag.
OuterBound ==
    IF variant = "kntrl" THEN Len(allowedHostsAddress) ELSE Len(Join(allowedHosts))

\* kntrl lines 184-194, tracer lines 476-486 from indexes (i, v) on, 1-based.
\* c: [bound, domain, key, putOk]; st: [allow, end].
RECURSIVE MatchLoop(_, _, _, _)
MatchLoop(i, v, c, st) ==
    IF i > c.bound THEN st
    ELSE IF v > Len(c.domain) THEN MatchLoop(i + 1, 1, c, st)
    ELSE IF i > Len(allowedHostsAddress) THEN [st EXCEPT !.end = "panic"]
    ELSE IF Contains(c.domain[v], allowedHostsAddress[i])
         THEN IF c.putOk
              THEN MatchLoop(i, v + 1, c,
                             [st EXCEPT !.allow = Put(@, c.key, 1)])
              ELSE [st EXCEPT !.end = "fatal"]
         ELSE MatchLoop(i, v + 1, c, st)

\* Faulty variant of ReadClosed (a property that depends on ReadClosed must fail with it): the closed condition is treated like any other error.
ReadClosed_AsOtherError ==
    /\ pc = "read"
    /\ rd = "closed"
    /\ Goto("decode", Res, defers)
    /\ UNCHANGED <<inputVars, seedVars, memlock, loadCalls, modeMap, allowMap,
                   handlerVars, loopVars, printCalls, rCleanCalls>>

\* kntrl lines 165-169, tracer lines 457-461: Read on a closed reader.
ReadClosed ==
    /\ pc = "read"
    /\ rd = "closed"
    /\ Goto("exit", Res, defers)
    /\ UNCHANGED <<inputVars, seedVars, memlock, loadCalls, modeMap, allowMap,
                   handlerVars, loopVars, printCalls, rCleanCalls>>

\* kntrl line 165, tracer line 457: Read returns a record.
ReadRecord ==
    /\ pc = "read"
    /\ rd = "open"
    /\ nReads < MaxEvents
    /\ nReads' = nReads + 1
    /\ record' \in RawSamples \ {<< >>}
    /\ Goto("decode", Res, defers)
    /\ UNCHANGED <<inputVars, seedVars, memlock, loadCalls, modeMap, allowMap,
                   handlerVars, event, domain, connLines, report, printCalls,
                   rCleanCalls>>

\* kntrl lines 165-171, tracer lines 457-463: Read fails with another error; it is
\* logged and the body goes on with the zero Record.
ReadError ==
    /\ pc = "read"
    /\ rd = "open"
    /\ nReads < MaxEvents
    /\ nReads' = nReads + 1
    /\ record' = << >>
    /\ Goto("decode", Res, defers)
    /\ UNCHANGED <<inputVars, seedVars, memlock, loadCalls, modeMap, allowMap,
                   handlerVars, event, domain, connLines, report, printCalls,
                   rCleanCalls>>

\* Faulty variant of Skip (a property that depends on Skip must fail with it): no continue, the body goes on with the retained event.
Skip_NoContinue ==
    /\ pc = "decode"
    /\ ~CanDecode(record)
    /\ record' = << >>
    /\ domain' = <<".">>
    /\ Goto("match", Res, defers)
    /\ UNCHANGED <<inputVars, seedVars, memlock, loadCalls, modeMap, allowMap,
                   handlerVars, event, nReads, connLines, report, printCalls,
                   rCleanCalls>>

\* kntrl lines 173-176, tracer lines 465-468: the record does not decode; continue.
Skip ==
    /\ pc = "decode"
    /\ ~CanDecode(record)
    /\ record' = << >>
    /\ Goto("read", Res, defers)
    /\ UNCHANGED <<inputVars, seedVars, memlock, loadCalls, modeMap, allowMap,
                   handlerVars, event, domain, nReads, connLines, report, printCalls,
                   rCleanCalls>>

\* kntrl lines 173-182, tracer lines 465-474: the record decodes into event and
\* the destination is looked up; a failed lookup leaves the name ".".
DecodeLookup ==
    /\ pc = "decode"
    /\ CanDecode(record)
    /\ event' = Decode(record)
    /\ record' = << >>
    /\ \E l \in Lookups :
         domain' = IF l.err THEN Append(l.names, ".") ELSE l.names
    /\ Goto("match", Res, defers)
    /\ UNCHANGED <<inputVars, seedVars, memlock, loadCalls, modeMap, allowMap,
                   handlerVars, nReads, connLines, report, printCalls, rCleanCalls>>

\* kntrl lines 184-202, tracer lines 476-494: the matching loop and the
\* connection log line.  putOk: allowMap.Put succeeds.
Match ==
    /\ pc = "match"
    /\ domain' = << >>
    /\ \E putOk \in BOOLEAN :
         LET st == MatchLoop(1, 1,
                             [bound |-> OuterBound, domain |-> domain,
                              key |-> IntToIP(event.Daddr), putOk |-> putOk],
                             [allow |-> allowMap, end |-> "ok"])
         IN  /\ allowMap' = st.allow
             /\ CASE st.end = "ok" ->
                       /\ connLines' = connLines + 1
                       /\ Goto("read", Res, defers)
                  [] st.end = "fatal" ->
                       /\ connLines' = connLines
                       /\ Fatalf(Res)
                  [] st.end = "panic" ->
                       /\ connLines' = connLines
                       /\ Panic(Res)
    /\ UNCHANGED <<inputVars, seedVars, memlock, loadCalls, modeMap,
                   handlerVars, record, event, nReads, report, printCalls, rCleanCalls>>

\* kntrl line 206, tracer line 498: <-done
WaitDone ==
    /\ pc = "exit"
    /\ done > 0
    /\ done' = done - 1
    /\ Goto("final", Res, defers)
    /\ UNCHANGED <<inputVars, seedVars, memlock, loadCalls, modeMap, allowMap,
                   sigs, hpc, loopVars, printCalls, rCleanCalls>>

\* kntrl lines 207-213, tracer lines 499-505: r.Print(), r.Clean(), return nil.
Finalize ==
    /\ pc = "final"
    /\ printCalls' = printCalls + 1
    /\ rCleanCalls' = rCleanCalls + 1
    /\ Return("nil", Res)
    /\ UNCHANGED <<inputVars, seedVars, memlock, loadCalls, modeMap, allowMap,
                   handlerVars, loopVars>>

Loop ==
    \/ ReadClosed \/ ReadRecord \/ ReadError \/ Skip \/ DecodeLookup \/ Match
    \/ WaitDone \/ Finalize

Next == Setup \/ Signal \/ Handler \/ Loop
Spec == Init /\ [][Next]_vars

\* The steps the main goroutine takes by itself.  A Read that returns a record
\* or another error (ReadRecord, ReadError) waits for the kernel: it is not
\* among them, and Run may block in Read for ever while the reader is open.
MainStep == Setup \/ ReadClosed \/ Skip \/ DecodeLookup \/ Match \/ WaitDone \/ Finalize

\* Fair scheduling of the two goroutines: the handler goroutine (kntrl lines
\* 152-159, tracer lines 444-451) and the main goroutine each take a step they
\* can take.  Signals, events and read errors come from outside and are not fair.
FairSpec == Spec /\ WF_vars(Handler) /\ WF_vars(MainStep)

\* ------------------------------------------------------------------ claims
AllowSuffixIn(names) ==
    \E v \in 1..Len(names), i \in 1..Len(allowedHostsAddress) :
        Contains(names[v], allowedHostsAddress[i])

FixedAddresses ==
    {To4(ParseIP(localLoopback)), To4(ParseIP(linkLocal)), To4(ParseIP(azureMeta))}

\* C1: with an empty or unrecognized mode string the tracer Run returns a
\* configuration error at once: it never gets past its entry, the loader is not
\* called, no map is written, no reader opened and no program attached.
C1_InvalidModeTouchesNothing ==
    (variant = "tracer" /\ mode \notin {TracerModeMonitor, TracerModeTrace}) =>
        /\ pc \in {"entry", "done"}
        /\ loadCalls = 0
        /\ collection = "nil"
        /\ modeMap = << >>
        /\ allowMap = << >>
        /\ rd = "none" /\ rd2 = "none"
        /\ \A p \in Progs : links[p] = "unvisited" /\ cgroup[p] = "none"
        /\ pc = "done" =>
             /\ outcome = "returned"
             /\ retErr = IF mode = "" THEN "[mode] flag is required"
                         ELSE "[mode] flag is invalid"

C1_Witness ==
    /\ variant = "tracer"
    /\ mode = "enforce"
    /\ pc = "done"
    /\ retErr = "[mode] flag is invalid"

\* C2: a Read on the closed opened-events reader leaves the loop for EXIT; the
\* wait on done at EXIT finds the handler's message; Print and Clean of the
\* reporter run at most once, and exactly once when Run returns nil, however
\* many signals were delivered.
C2_ClosedReaderFinalizesOnce ==
    /\ [][(pc = "read" /\ rd = "closed" /\ pc' # pc) => pc' = "exit"]_vars
    /\ [](pc = "exit" => done = 1)
    /\ [](printCalls <= 1 /\ rCleanCalls <= 1)
    /\ []((pc = "done" /\ retErr = "nil") =>
            (outcome = "returned" /\ printCalls = 1 /\ rCleanCalls = 1 /\ done = 0))

\* Run has returned nil after finalizing once, and a further signal arrived
\* after the handler took the first one.
C2_Witness ==
    /\ pc = "done"
    /\ retErr = "nil"
    /\ printCalls = 1
    /\ hpc = "end"
    /\ sigs = 1

\* C3: when Run is over, no attachment handle is still open, on any exit path.
C3_LinksReleasedOnEveryExit ==
    pc = "done" => \A p \in Progs : links[p] # "open"

\* C4: when Run is over the collection cleanup has been called exactly once,
\* and a call with no collection instantiated has not panicked.
C4_CleanOnceAndSafe ==
    pc = "done" =>
        /\ cleanCalls = 1
        /\ collection = "nil" => outcome # "panic"

\* C5: when an attach fails, Run returns that error with every earlier
\* attachment and the collection released.
C5_AttachFailureReleases ==
    (pc = "done" /\ retErr = "attach failed") =>
        /\ outcome = "returned"
        /\ \A p \in Progs : links[p] \in {"unvisited", "skipped", "closed"}
        /\ collection = "closed"
        /\ cleanCalls = 1

C5_Witness ==
    /\ pc = "done"
    /\ retErr = "attach failed"
    /\ \E p \in Progs : links[p] = "closed"
    /\ collection = "closed"

\* C6: a record whose length differs from the record size, shorter or longer,
\* is skipped: the loop is back at Read with the allow map, the log and the
\* event untouched.
C6_WrongLengthSkipped ==
    [][(pc = "decode" /\ Len(record) # IP4EventSize /\ pc' # pc) =>
          /\ pc' = "read"
          /\ allowMap' = allowMap
          /\ connLines' = connLines
          /\ event' = event]_vars

\* C7: once an event whose resolved name contains an allow-suffix has been
\* processed, its destination address is a key of the allow map, whatever the
\* hosts flag; if it was one already, no key is added.
C7_SuffixMatchAllows ==
    [][(pc = "match" /\ AllowSuffixIn(domain) /\ pc' = "read") =>
          /\ IntToIP(event.Daddr) \in DOMAIN allowMap'
          /\ IntToIP(event.Daddr) \in DOMAIN allowMap =>
               DOMAIN allowMap' = DOMAIN allowMap]_vars

\* C8: after a malformed record, a failed Read or a failed lookup, the next step
\* of the loop is the blocking Read again.
C8_LoopSurvivesFault ==
    [][(/\ \/ pc = "decode" /\ ~CanDecode(record)
           \/ pc = "match" /\ domain = <<".">>
        /\ pc' # pc) => pc' = "read"]_vars

\* C9: when the seeding loop is over, every seed address and the three fixed
\* addresses are keys of the allow map, each under its own four bytes.
C9_SeedsUnderOwnKey ==
    (pc = "seed" /\ seedIdx = Len(hosts)) =>
        /\ \A i \in 1..Len(hosts) : To4(hosts[i]) \in DOMAIN allowMap
        /\ FixedAddresses \subseteq DOMAIN allowMap

\* C10: Load is not called before RemoveMemlock has succeeded.
C10_MemlockBeforeLoad ==
    loadCalls > 0 => memlock
\* The positions of the event loop and of the finalization.
LoopPcs == {"read", "decode", "match"}
ExitPcs == {"exit", "final"}

\* C11: mode_map is written at most once; the write is made by the mode step,
\* before any Read; once the loop is reached the map holds the one code of the
\* requested mode, and it is never written again.
C11_ModeWrittenOnce ==
    /\ [](Len(modeMap) <= 1)
    /\ [](pc \in LoopPcs \cup ExitPcs =>
            modeMap = << IF variant = "kntrl" THEN mode
                         ELSE CASE mode = TracerModeMonitor -> TracerModeIndexMonitor
                                [] mode = TracerModeTrace -> TracerModeIndexTrace >>)
    /\ [][modeMap' # modeMap => (pc = "mode" /\ nReads = 0 /\ modeMap = << >>)]_vars

C11_Witness ==
    /\ variant = "tracer"
    /\ mode = TracerModeTrace
    /\ pc = "match"
    /\ modeMap = <<TracerModeIndexTrace>>

\* The reporter exists: kntrl creates it first of all (line 41), tracer after
\* the readers (lines 370-373) and before RemoveMemlock, the only writer of memlock.
ReporterCreated == variant = "kntrl" \/ memlock

\* C12: Print and Clean of the reporter are each called exactly once per run:
\* neither is called before the loop has ended and the wait on done is over,
\* both are called by the finalization, and when Run has returned in a run that
\* created the reporter, each was called once.
C12_ReportOnceAfterLoop ==
    /\ [](pc \notin {"done"} => (printCalls = 0 /\ rCleanCalls = 0))
    /\ [][(printCalls' # printCalls \/ rCleanCalls' # rCleanCalls) =>
            /\ pc = "final"
            /\ rd = "closed"
            /\ printCalls' = 1 /\ rCleanCalls' = 1
            /\ pc' = "done" /\ retErr' = "nil"]_vars
    /\ []((pc = "done" /\ outcome = "returned" /\ ReporterCreated) =>
            (printCalls = 1 /\ rCleanCalls = 1))

\* C13: processing a decoded event appends one entry to the report accumulator
\* and emits one connection log line before the next Read.
C13_EventReportedAndLogged ==
    [][(pc = "match" /\ pc' = "read") =>
          (report' = report + 1 /\ connLines' = connLines + 1)]_vars

\* C14: no step of Run removes a key from the allow map.
C14_AllowSetGrows ==
    [][DOMAIN allowMap \subseteq DOMAIN allowMap']_vars

\* The allow map was seeded and has then grown by an event's address.
C14_Witness ==
    /\ pc = "read"
    /\ nReads > 0
    /\ FixedAddresses \subseteq DOMAIN allowMap
    /\ <<140, 82, 112, 3>> \in DOMAIN allowMap
\* C15: an iteration on a program of an unrecognized kind marks it skipped and
\* nothing else: Run stays in the attach loop, returns no error, and the other
\* programs keep their state; when the loop is reached every program was
\* visited, in whatever order, and is attached unless its kind was unrecognized.
C15_UnknownKindSkipped ==
    /\ [][\A p \in Progs :
            (links[p] = "unvisited" /\ links'[p] = "skipped") =>
               /\ pc = "attach" /\ pc' = "attach"
               /\ outcome' = "running" /\ retErr' = retErr
               /\ defers' = defers
               /\ \A q \in Progs \ {p} : links'[q] = links[q] /\ cgroup'[q] = cgroup[q]]_vars
    /\ []((outcome = "running" /\ pc \in {"arm"} \cup LoopPcs \cup ExitPcs) =>
            \A p \in Progs : links[p] \in {"skipped", "open"})

\* The loop is reached with one program skipped and the other attached.
C15_Witness ==
    /\ pc = "read"
    /\ outcome = "running"
    /\ \E p, q \in Progs : links[p] = "skipped" /\ links[q] = "open"

\* A termination signal was delivered to sigs: it is in the channel or the
\* handler has taken it.
SignalDelivered == sigs > 0 \/ hpc \in {"post", "close", "end"}

\* C16: once a signal was delivered, Run eventually returns.
C16_SignalLeadsToReturn ==
    SignalDelivered ~> (pc = "done" /\ outcome = "returned")

\* C17: after a Read that failed with another error the body decodes the empty
\* record, which fails, and goes back to Read: the allow map, the log, the
\* report and the retained event are as before.
C17_ReadErrorProcessesNothing ==
    [][(pc = "decode" /\ record = << >> /\ pc' # pc) =>
          /\ pc' = "read"
          /\ outcome' = "running"
          /\ allowMap' = allowMap
          /\ connLines' = connLines
          /\ report' = report
          /\ event' = event]_vars

\* A Read has failed while event still holds the previous iteration's event.
C17_Witness ==
    /\ pc = "decode"
    /\ record = << >>
    /\ nReads = 2
    /\ connLines = 1
    /\ event.Daddr \in Daddrs

\* C18: every address ToDataJson hands to Run is a non-nil 4-byte address.
C18_AllowedIPsAreIPv4 ==
    (variant = "kntrl" /\ pc = "entry") =>
        \A i \in 1..Len(hosts) : hosts[i] # Nil /\ Len(hosts[i]) = 4

\* C19: when Run has returned, no root cgroup file handle is left open.
C19_CgroupHandleClosedOnReturn ==
    (pc = "done" /\ outcome = "returned") => \A p \in Progs : cgroup[p] # "open"
====
